---- MODULE Spec2Model ----
(***************************************************************************)
(* Brute-force and Strassen (divide & conquer) square-matrix multiply of   *)
(* matrix_multiply.cpp, with its element-wise helpers and the harness of   *)
(* main.                                                                   *)
(*                                                                         *)
(* A matrix is a function [0..d-1 -> [0..d-1 -> Int]] (long long** with d  *)
(* rows of d cells); the size argument n of every routine is passed        *)
(* separately, as in the code, and may be smaller than d.  Entries are     *)
(* small, so no intermediate value of either algorithm leaves the range of *)
(* long long and Int arithmetic coincides with the machine's.              *)
(***************************************************************************)
EXTENDS Integers, Sequences, FiniteSets, TLC

VARIABLES
    n,             \* size under test (main: const int n = testSizes[i])
    A, B,          \* input matrices of main
    C1, C2,        \* output buffers of main: brute force, divide & conquer
    T, R,          \* destination buffers of the element-wise helpers
    junk,          \* what this run reads from storage `new` left uninitialised
    pc,            \* position of the driver
    iter,          \* loop counter of the timing loops of main
    resultsMatch,  \* bool resultsMatch of main
    examined,      \* cells compared by the last verifyMatrices call
    heap,          \* the free store: live address -> [owner, cells]
    brk,           \* the next address operator new hands out
    stack,         \* activation records of matrixMultiplyDivideConquer
    fault,         \* "none", or the memory error the run has committed
    calls,         \* top-level calls of matrixMultiplyDivideConquer made
    nfree,         \* delete[] expressions executed so far
    memo,          \* factorial.cpp: static unsigned long long memo[100]
    factN,         \* factorial.cpp main: const int n = testCases[i]
    resultBF,      \* factorial.cpp main: unsigned long long resultBF
    resultDC,      \* factorial.cpp main: unsigned long long resultDC
    fcalls,        \* top-level calls of factorialDivideConquer made
    loopI,         \* factorialBruteForce: int i of the loop
    result,        \* factorialBruteForce: unsigned long long result
    fstack,        \* arguments of the factorialDivideConquer calls in progress
    fret,          \* value the last factorialDivideConquer call returned
    cand,          \* prime numbers: the argument of the primality tests
    primeBF,       \* prime numbers: what isPrimeBruteForce returned
    primeDC,       \* prime numbers: what isPrimeDivideConquer returned
    range,         \* prime numbers main: const int range = testRanges[i]
    countBF,       \* prime numbers main: int countBF
    countDC        \* prime numbers main: int countDC

dataVars == <<n, A, B, C1, C2, T, R, junk, iter, resultsMatch, examined>>
heapVars == <<heap, brk, stack, fault, calls, nfree>>
factVars ==
    <<memo, factN, resultBF, resultDC, fcalls, loopI, result, fstack, fret>>
primeVars == <<cand, primeBF, primeDC, range, countBF, countDC>>
numVars == <<factVars, primeVars>>
vars == <<dataVars, pc, heapVars, numVars>>

\* the factorial and prime-number programs are separate executables: while
\* the matrix program runs, their variables do not exist
FactorialIdle ==
    /\ memo = <<>> /\ factN = 0 /\ resultBF = <<>> /\ resultDC = <<>> /\ fcalls = 0
    /\ loopI = 0 /\ result = <<>> /\ fstack = <<>> /\ fret = <<>>

PrimesIdle ==
    /\ cand = 0 /\ primeBF = FALSE /\ primeDC = FALSE
    /\ range = 0 /\ countBF = 0 /\ countDC = 0

NumbersIdle == FactorialIdle /\ PrimesIdle

----------------------------------------------------------------------------
(* Bounds of the model *)

\* largest matrix size drawn
MaxN == 8
\* largest size for which every single-entry matrix is drawn
MaxUnitN == 4
\* number of distinct values left in uninitialised storage
NumJunk == 2

\* main: const int NUM_ITERATIONS = 10
NUM_ITERATIONS == 10

Idx(d) == 0 .. (d - 1)

Fill(d, v) == [i \in Idx(d) |-> [j \in Idx(d) |-> v]]

----------------------------------------------------------------------------
(* matrixMultiplyBruteForce *)

\* DotLoop with the test written as "both factors positive"
RECURSIVE DotLoop_SkipNonPositive(_, _, _, _, _, _, _)
DotLoop_SkipNonPositive(a, b, i, j, k, sz, acc) ==
    IF k >= sz THEN acc
    ELSE DotLoop_SkipNonPositive(a, b, i, j, k + 1, sz,
                 IF a[i][k] > 0 /\ b[k][j] > 0
                 THEN acc + a[i][k] * b[k][j]
                 ELSE acc)

\* the k loop of one cell: acc is C[i][j], reset to 0 before the loop
RECURSIVE DotLoop(_, _, _, _, _, _, _)
DotLoop(a, b, i, j, k, sz, acc) ==
    IF k >= sz THEN acc
    ELSE DotLoop(a, b, i, j, k + 1, sz,
                 IF a[i][k] # 0 /\ b[k][j] # 0
                 THEN acc + a[i][k] * b[k][j]
                 ELSE acc)

\* matrixMultiplyBruteForce without the statement C[i][j] = 0
matrixMultiplyBruteForce_NoReset(a, b, c, sz) ==
    [i \in DOMAIN c |-> [j \in DOMAIN c[i] |->
        IF i < sz /\ j < sz THEN DotLoop(a, b, i, j, 0, sz, c[i][j])
        ELSE c[i][j]]]

matrixMultiplyBruteForce(a, b, c, sz) ==
    [i \in DOMAIN c |-> [j \in DOMAIN c[i] |->
        IF i < sz /\ j < sz THEN DotLoop(a, b, i, j, 0, sz, 0) ELSE c[i][j]]]

----------------------------------------------------------------------------
(* addMatrix, subtractMatrix *)

addMatrix(a, b, c, sz) ==
    [i \in DOMAIN c |-> [j \in DOMAIN c[i] |->
        IF i < sz /\ j < sz THEN a[i][j] + b[i][j] ELSE c[i][j]]]

\* subtractMatrix with the operands exchanged
subtractMatrix_Reversed(a, b, c, sz) ==
    [i \in DOMAIN c |-> [j \in DOMAIN c[i] |->
        IF i < sz /\ j < sz THEN b[i][j] - a[i][j] ELSE c[i][j]]]

subtractMatrix(a, b, c, sz) ==
    [i \in DOMAIN c |-> [j \in DOMAIN c[i] |->
        IF i < sz /\ j < sz THEN a[i][j] - b[i][j] ELSE c[i][j]]]

----------------------------------------------------------------------------
(* matrixMultiplyDivideConquer, as a function of its arguments *)

\* new long long*[half] with half rows new long long[half]: uninitialised
NewMatrix(half) == Fill(half, junk)

\* the split loop with row and column offsets exchanged
Quadrant_SwapOffsets(m, r, c, half) ==
    [i \in Idx(half) |-> [j \in Idx(half) |-> m[i + c][j + r]]]

\* the split loop: the half x half block of m whose corner is (r, c)
Quadrant(m, r, c, half) ==
    [i \in Idx(half) |-> [j \in Idx(half) |-> m[i + r][j + c]]]

\* the combine loop with C11 = P5 + P4 - P2 - P6
Combine_SignSlip(c, P1, P2, P3, P4, P5, P6, P7, half) ==
    [i \in DOMAIN c |-> [j \in DOMAIN c[i] |->
        IF i < half /\ j < half
        THEN P5[i][j] + P4[i][j] - P2[i][j] - P6[i][j]
        ELSE IF i < half /\ j >= half /\ j < 2 * half
        THEN P1[i][j - half] + P2[i][j - half]
        ELSE IF i >= half /\ i < 2 * half /\ j < half
        THEN P3[i - half][j] + P4[i - half][j]
        ELSE IF i >= half /\ i < 2 * half /\ j >= half /\ j < 2 * half
        THEN P5[i - half][j - half] + P1[i - half][j - half]
             - P3[i - half][j - half] - P7[i - half][j - half]
        ELSE c[i][j]]]

\* the combine loop clearing the cells of c outside the four blocks
Combine_ClearsRest(c, P1, P2, P3, P4, P5, P6, P7, half) ==
    [i \in DOMAIN c |-> [j \in DOMAIN c[i] |->
        IF i < half /\ j < half
        THEN P5[i][j] + P4[i][j] - P2[i][j] + P6[i][j]
        ELSE IF i < half /\ j >= half /\ j < 2 * half
        THEN P1[i][j - half] + P2[i][j - half]
        ELSE IF i >= half /\ i < 2 * half /\ j < half
        THEN P3[i - half][j] + P4[i - half][j]
        ELSE IF i >= half /\ i < 2 * half /\ j >= half /\ j < 2 * half
        THEN P5[i - half][j - half] + P1[i - half][j - half]
             - P3[i - half][j - half] - P7[i - half][j - half]
        ELSE 0]]

\* the combine loop: writes the four half x half blocks of c
Combine(c, P1, P2, P3, P4, P5, P6, P7, half) ==
    [i \in DOMAIN c |-> [j \in DOMAIN c[i] |->
        IF i < half /\ j < half
        THEN P5[i][j] + P4[i][j] - P2[i][j] + P6[i][j]
        ELSE IF i < half /\ j >= half /\ j < 2 * half
        THEN P1[i][j - half] + P2[i][j - half]
        ELSE IF i >= half /\ i < 2 * half /\ j < half
        THEN P3[i - half][j] + P4[i - half][j]
        ELSE IF i >= half /\ i < 2 * half /\ j >= half /\ j < 2 * half
        THEN P5[i - half][j - half] + P1[i - half][j - half]
             - P3[i - half][j - half] - P7[i - half][j - half]
        ELSE c[i][j]]]

\* the base case with the test written n <= 1
IsBaseCase_One(sz) == sz <= 1

\* if (n <= 2)
IsBaseCase(sz) == sz <= 2

RECURSIVE matrixMultiplyDivideConquer(_, _, _, _)
matrixMultiplyDivideConquer(a, b, c, sz) ==
    IF IsBaseCase(sz) THEN matrixMultiplyBruteForce(a, b, c, sz)
    ELSE
    LET half == sz \div 2
        A11 == Quadrant(a, 0, 0, half)
        A12 == Quadrant(a, 0, half, half)
        A21 == Quadrant(a, half, 0, half)
        A22 == Quadrant(a, half, half, half)
        B11 == Quadrant(b, 0, 0, half)
        B12 == Quadrant(b, 0, half, half)
        B21 == Quadrant(b, half, 0, half)
        B22 == Quadrant(b, half, half, half)
        \* temp1 and temp2 are reused: each name below is the buffer's
        \* contents after one more helper call
        t1a == subtractMatrix(B12, B22, NewMatrix(half), half)
        P1  == matrixMultiplyDivideConquer(A11, t1a, NewMatrix(half), half)
        t1b == addMatrix(A11, A12, t1a, half)
        P2  == matrixMultiplyDivideConquer(t1b, B22, NewMatrix(half), half)
        t1c == addMatrix(A21, A22, t1b, half)
        P3  == matrixMultiplyDivideConquer(t1c, B11, NewMatrix(half), half)
        t1d == subtractMatrix(B21, B11, t1c, half)
        P4  == matrixMultiplyDivideConquer(A22, t1d, NewMatrix(half), half)
        t1e == addMatrix(A11, A22, t1d, half)
        t2a == addMatrix(B11, B22, NewMatrix(half), half)
        P5  == matrixMultiplyDivideConquer(t1e, t2a, NewMatrix(half), half)
        t1f == subtractMatrix(A12, A22, t1e, half)
        t2b == addMatrix(B21, B22, t2a, half)
        P6  == matrixMultiplyDivideConquer(t1f, t2b, NewMatrix(half), half)
        t1g == subtractMatrix(A11, A21, t1f, half)
        t2c == addMatrix(B11, B12, t2b, half)
        P7  == matrixMultiplyDivideConquer(t1g, t2c, NewMatrix(half), half)
    IN  Combine(c, P1, P2, P3, P4, P5, P6, P7, half)

----------------------------------------------------------------------------
(* verifyMatrices *)

\* the scan without the early return: it remembers a mismatch and goes on
RECURSIVE verifyScan_NoEarlyExit(_, _, _, _, _)
verifyScan_NoEarlyExit(a, b, sz, pos, cnt) ==
    IF sz <= 0 \/ pos >= sz * sz THEN [ret |-> TRUE, examined |-> cnt]
    ELSE LET rest == verifyScan_NoEarlyExit(a, b, sz, pos + 1, cnt + 1)
         IN  IF a[pos \div sz][pos % sz] # b[pos \div sz][pos % sz]
             THEN [ret |-> FALSE, examined |-> rest.examined]
             ELSE rest

\* the row-major scan from cell pos = i * sz + j; cnt cells compared so far
RECURSIVE verifyScan(_, _, _, _, _)
verifyScan(a, b, sz, pos, cnt) ==
    IF sz <= 0 \/ pos >= sz * sz THEN [ret |-> TRUE, examined |-> cnt]
    ELSE IF a[pos \div sz][pos % sz] # b[pos \div sz][pos % sz]
         THEN [ret |-> FALSE, examined |-> cnt + 1]
         ELSE verifyScan(a, b, sz, pos + 1, cnt + 1)

verifyMatrices(a, b, sz) == verifyScan(a, b, sz, 0, 0).ret

----------------------------------------------------------------------------
(* Inputs: the matrices the driver draws in place of initializeRandomMatrix *)

Sizes == 0 .. MaxN

Zero(d) == Fill(d, 0)

Ident(d) == [i \in Idx(d) |-> [j \in Idx(d) |-> IF i = j THEN 1 ELSE 0]]

\* off+1, off+2, ... in row-major order
Ramp(d, off) == [i \in Idx(d) |-> [j \in Idx(d) |-> off + i * d + j + 1]]

\* one non-zero entry, at (p, q)
Unit(d, p, q) ==
    [i \in Idx(d) |-> [j \in Idx(d) |->
        IF i = p /\ j = q THEN (IF (p + q) % 2 = 0 THEN 1 ELSE -2) ELSE 0]]

\* a dense mix of negative, zero and positive entries in -2 .. 2
Pattern(d, s) ==
    [i \in Idx(d) |-> [j \in Idx(d) |->
        ((i * (s + 1) + j * (2 * s + 1) + i * j + s) % 5) - 2]]

Units(d) == {Unit(d, p, q) : p \in Idx(d), q \in Idx(d)}

Basics(d) ==
    {Zero(d), Ident(d), Ramp(d, 0), Ramp(d, d * d)}
    \cup {Pattern(d, s) : s \in 0 .. 2}

\* the pairs (A, B) drawn at size d: every pair of basic matrices and, up to
\* MaxUnitN, every pair of single-entry matrices (matrix product is bilinear,
\* so these pairs exercise every term A[i][k] * B[l][j] on its own)
InputPairs(d) ==
    (Basics(d) \X Basics(d))
    \cup (IF d <= MaxUnitN THEN Units(d) \X Units(d) ELSE {})

JunkVals == {7 * k - 10 : k \in 1 .. NumJunk}

----------------------------------------------------------------------------
(* The driver: main's body for one test size, and direct calls of the     *)
(* helpers on main's inputs                                               *)

Init ==
    /\ n \in Sizes
    /\ \E ab \in InputPairs(n) : A = ab[1] /\ B = ab[2]
    /\ junk \in JunkVals
    /\ C1 = Fill(n, junk)
    /\ C2 = Fill(n, junk)
    /\ T = Fill(n, junk)
    /\ R = Fill(n, junk)
    /\ pc = "start"
    /\ iter = 0
    /\ resultsMatch = FALSE
    /\ examined = 0
    /\ heap = <<>>
    /\ brk = 1
    /\ stack = <<>>
    /\ fault = "none"
    /\ calls = 0
    /\ NumbersIdle
    /\ nfree = 0

\* for (iter ...) matrixMultiplyBruteForce(A, B, C1, n);
BruteForceIter ==
    /\ pc \in {"start", "bf"}
    /\ iter < NUM_ITERATIONS
    /\ C1' = matrixMultiplyBruteForce(A, B, C1, n)
    /\ IF iter + 1 < NUM_ITERATIONS
       THEN pc' = "bf" /\ iter' = iter + 1
       ELSE pc' = "dc" /\ iter' = 0
    /\ UNCHANGED <<n, A, B, C2, T, R, junk, resultsMatch, examined, heapVars, numVars>>

\* for (iter ...) matrixMultiplyDivideConquer(A, B, C2, n);
DivideConquerIter ==
    /\ pc = "dc"
    /\ iter < NUM_ITERATIONS
    /\ C2' = matrixMultiplyDivideConquer(A, B, C2, n)
    /\ IF iter + 1 < NUM_ITERATIONS
       THEN pc' = "dc" /\ iter' = iter + 1
       ELSE pc' = "verify" /\ iter' = 0
    /\ UNCHANGED <<n, A, B, C1, T, R, junk, resultsMatch, examined, heapVars, numVars>>

\* bool resultsMatch = verifyMatrices(C1, C2, n);
VerifyResults ==
    /\ pc = "verify"
    /\ resultsMatch' = verifyMatrices(C1, C2, n)
    /\ examined' = verifyScan(C1, C2, n, 0, 0).examined
    /\ pc' = "done"
    /\ UNCHANGED <<n, A, B, C1, C2, T, R, junk, iter, heapVars, numVars>>

\* addMatrix(A, B, T, n)
CallAdd ==
    /\ pc = "start"
    /\ T' = addMatrix(A, B, T, n)
    /\ pc' = "added"
    /\ UNCHANGED <<n, A, B, C1, C2, R, junk, iter, resultsMatch, examined, heapVars, numVars>>

\* subtractMatrix(T, B, R, n)
CallSubtract ==
    /\ pc = "added"
    /\ R' = subtractMatrix(T, B, R, n)
    /\ pc' = "subtracted"
    /\ UNCHANGED <<n, A, B, C1, C2, T, junk, iter, resultsMatch, examined, heapVars, numVars>>

\* verifyMatrices(A, B, n)
CallVerify ==
    /\ pc = "start"
    /\ resultsMatch' = verifyMatrices(A, B, n)
    /\ examined' = verifyScan(A, B, n, 0, 0).examined
    /\ pc' = "compared"
    /\ UNCHANGED <<n, A, B, C1, C2, T, R, junk, iter, heapVars, numVars>>

Next ==
    \/ BruteForceIter
    \/ DivideConquerIter
    \/ VerifyResults
    \/ CallAdd
    \/ CallSubtract
    \/ CallVerify

Spec == Init /\ [][Next]_vars

----------------------------------------------------------------------------
(* matrixMultiplyDivideConquer on an explicit free store and call stack.   *)
(*                                                                         *)
(* A heap object is one array obtained from operator new: a row-pointer    *)
(* array (its cells are the addresses of the rows) or a row (its cells are *)
(* the numbers).  cells is indexed from 1: C++ index i is cells[i + 1].    *)
(* A freed address leaves DOMAIN heap and is never handed out again, so a  *)
(* second delete[] or a use after delete[] is detected and recorded in     *)
(* fault.  owner is the depth of the frame that allocated the object, 0    *)
(* for the caller.                                                         *)
(***************************************************************************)

\* consecutive top-level calls the caller makes
MaxCalls == 2

\* the locals of one activation, in the order the code allocates them
QuadNames == <<"A11", "A12", "A21", "A22", "B11", "B12", "B21", "B22">>
TempNames == <<"temp1", "temp2", "P1", "P2", "P3", "P4", "P5", "P6", "P7">>

\* the matrices of the caller
CallerNames == <<"A", "B", "C">>

\* K matrices of d x d allocated from address base: first the K row-pointer
\* arrays, then for i = 0 .. d-1 row i of each
PtrAddr(base, k) == base + k - 1
RowAddr(base, K, k, i) == base + K + i * K + (k - 1)

AllocMatrices(h, base, K, d, owner) ==
    LET ptrs == [a \in base .. (base + K - 1) |->
                   [owner |-> owner,
                    cells |-> [i \in 1 .. d |->
                                  RowAddr(base, K, a - base + 1, i - 1)]]]
        rows == [a \in (base + K) .. (base + K + d * K - 1) |->
                   [owner |-> owner, cells |-> [j \in 1 .. d |-> junk]]]
    IN  h @@ ptrs @@ rows

\* the addresses AllocMatrices gave the matrices named in names
Locals(base, names) ==
    [x \in {names[k] : k \in 1 .. Len(names)} |->
        PtrAddr(base, CHOOSE k \in 1 .. Len(names) : names[k] = x)]

\* p is a live row-pointer array all of whose rows are live
MatrixLive(h, p) ==
    /\ p \in DOMAIN h
    /\ \A i \in 1 .. Len(h[p].cells) : h[p].cells[i] \in DOMAIN h

AllLive(h, ps) == \A p \in ps : MatrixLive(h, p)

\* the matrix behind the long long** p
ReadMatrix(h, p) ==
    LET d == Len(h[p].cells) IN
    [i \in Idx(d) |-> [j \in Idx(d) |-> h[h[p].cells[i + 1]].cells[j + 1]]]

\* the heap after the cells behind p are assigned from m
WriteMatrix(h, p, m) ==
    LET rows == h[p].cells
        d == Len(rows)
        rowSet == {rows[i] : i \in 1 .. d}
    IN  [a \in DOMAIN h |->
            IF a \in rowSet
            THEN LET i == CHOOSE i \in 1 .. d : rows[i] = a
                 IN  [h[a] EXCEPT !.cells = [j \in 1 .. d |-> m[i - 1][j - 1]]]
            ELSE h[a]]

\* the heap after the cells behind each p in DOMAIN ws are assigned from
\* ws[p]; the matrices written are distinct buffers
WriteMatrices(h, ws) ==
    LET rowsOf(p) == {h[p].cells[i] : i \in 1 .. Len(h[p].cells)}
    IN  [a \in DOMAIN h |->
            IF \E p \in DOMAIN ws : a \in rowsOf(p)
            THEN LET p == CHOOSE p \in DOMAIN ws : a \in rowsOf(p)
                     d == Len(h[p].cells)
                     i == CHOOSE i \in 1 .. d : h[p].cells[i] = a
                 IN  [h[a] EXCEPT
                         !.cells = [j \in 1 .. d |-> ws[p][i - 1][j - 1]]]
            ELSE h[a]]

\* delete[] on each address of seq in turn: the addresses leave the heap;
\* bad records a delete[] of an address that is not live when it is reached
\* (dead before the sequence, or deleted earlier in it)
FreeAll(h, seq, bad) ==
    LET gone == {seq[k] : k \in 1 .. Len(seq)}
    IN  [heap |-> [x \in DOMAIN h \ gone |-> h[x]],
         bad |-> \/ bad
                 \/ \E k \in 1 .. Len(seq) : seq[k] \notin DOMAIN h
                 \/ \E k, l \in 1 .. Len(seq) : k < l /\ seq[k] = seq[l]]

\* flatten a sequence of sequences
RECURSIVE Concat(_)
Concat(ss) == IF ss = <<>> THEN <<>> ELSE Head(ss) \o Concat(Tail(ss))

\* the clean-up that forgets delete[] temp2
CleanupFrees_LeaksTemp2(h, f) ==
    LET names == QuadNames \o TempNames
        rowsOf(i) == [k \in 1 .. Len(names) |-> h[f.loc[names[k]]].cells[i + 1]]
    IN  Concat([i \in 1 .. f.half |-> rowsOf(i - 1)])
        \o [k \in 1 .. Len(names) - 1 |->
               f.loc[(QuadNames \o <<"temp1">> \o Tail(Tail(TempNames)))[k]]]

\* the addresses the clean-up deletes, in order: for each i the 17 rows i,
\* then the 17 row-pointer arrays
CleanupFrees(h, f) ==
    LET names == QuadNames \o TempNames
        rowsOf(i) == [k \in 1 .. Len(names) |-> h[f.loc[names[k]]].cells[i + 1]]
    IN  Concat([i \in 1 .. f.half |-> rowsOf(i - 1)])
        \o [k \in 1 .. Len(names) |-> f.loc[names[k]]]

\* the products with the seventh recursive call left out
Products_SixOnly ==
    << [pre |-> << <<"sub", "B12", "B22", "temp1">> >>,
        call |-> <<"A11", "temp1", "P1">>],
       [pre |-> << <<"add", "A11", "A12", "temp1">> >>,
        call |-> <<"temp1", "B22", "P2">>],
       [pre |-> << <<"add", "A21", "A22", "temp1">> >>,
        call |-> <<"temp1", "B11", "P3">>],
       [pre |-> << <<"sub", "B21", "B11", "temp1">> >>,
        call |-> <<"A22", "temp1", "P4">>],
       [pre |-> << <<"add", "A11", "A22", "temp1">>,
                   <<"add", "B11", "B22", "temp2">> >>,
        call |-> <<"temp1", "temp2", "P5">>],
       [pre |-> << <<"sub", "A12", "A22", "temp1">>,
                   <<"add", "B21", "B22", "temp2">> >>,
        call |-> <<"temp1", "temp2", "P6">>] >>

\* the seven products: the helper calls that fill temp1 / temp2, then the
\* arguments of the recursive call
Products ==
    << [pre |-> << <<"sub", "B12", "B22", "temp1">> >>,
        call |-> <<"A11", "temp1", "P1">>],
       [pre |-> << <<"add", "A11", "A12", "temp1">> >>,
        call |-> <<"temp1", "B22", "P2">>],
       [pre |-> << <<"add", "A21", "A22", "temp1">> >>,
        call |-> <<"temp1", "B11", "P3">>],
       [pre |-> << <<"sub", "B21", "B11", "temp1">> >>,
        call |-> <<"A22", "temp1", "P4">>],
       [pre |-> << <<"add", "A11", "A22", "temp1">>,
                   <<"add", "B11", "B22", "temp2">> >>,
        call |-> <<"temp1", "temp2", "P5">>],
       [pre |-> << <<"sub", "A12", "A22", "temp1">>,
                   <<"add", "B21", "B22", "temp2">> >>,
        call |-> <<"temp1", "temp2", "P6">>],
       [pre |-> << <<"sub", "A11", "A21", "temp1">>,
                   <<"add", "B11", "B12", "temp2">> >>,
        call |-> <<"temp1", "temp2", "P7">>] >>

\* the heap after the helper calls of pre, made by frame f
RECURSIVE RunHelpers(_, _, _)
RunHelpers(h, f, pre) ==
    IF pre = <<>> THEN h
    ELSE LET c == Head(pre)
             x == ReadMatrix(h, f.loc[c[2]])
             y == ReadMatrix(h, f.loc[c[3]])
             z == ReadMatrix(h, f.loc[c[4]])
             out == IF c[1] = "add" THEN addMatrix(x, y, z, f.half)
                    ELSE subtractMatrix(x, y, z, f.half)
         IN  RunHelpers(WriteMatrix(h, f.loc[c[4]], out), f, Tail(pre))

NewFrame(a, b, c, sz) ==
    [n |-> sz, half |-> 0, pc |-> "entry", A |-> a, B |-> b, C |-> c,
     loc |-> <<>>, made |-> 0]

Top == stack[Len(stack)]
Depth == Len(stack)
Pop == SubSeq(stack, 1, Len(stack) - 1)
SetTop(f) == [stack EXCEPT ![Len(stack)] = f]

Running == pc = "machine" /\ fault = "none" /\ stack # <<>>

\* a use of a deleted buffer: the run is in error and is not followed further
UseAfterFree ==
    /\ fault' = "use after free"
    /\ UNCHANGED <<dataVars, numVars, pc, heap, brk, stack, calls, nfree>>

\* the sizes handed to the engine; below 0 the caller's matrices are empty
MachineSizes == (-1) .. MaxN

Dim(sz) == IF sz < 0 THEN 0 ELSE sz

\* the input pairs of the machine
MachineInputs(d) ==
    {<<Ramp(d, 0), Ramp(d, d * d)>>, <<Pattern(d, 1), Ident(d)>>,
     <<Pattern(d, 0), Pattern(d, 2)>>}

InitMachine ==
    /\ n \in MachineSizes
    /\ \E ab \in MachineInputs(Dim(n)) : A = ab[1] /\ B = ab[2]
    /\ junk \in JunkVals
    /\ C1 = <<>> /\ C2 = <<>> /\ T = <<>> /\ R = <<>>
    /\ iter = 0
    /\ resultsMatch = FALSE
    /\ examined = 0
    /\ pc = "machine"
    /\ LET h0 == AllocMatrices(<<>>, 1, 3, Dim(n), 0)
           h1 == WriteMatrix(h0, 1, A)
       IN  heap = WriteMatrix(h1, 2, B)
    /\ brk = 1 + 3 * (1 + Dim(n))
    /\ stack = <<>>
    /\ fault = "none"
    /\ calls = 0
    /\ NumbersIdle
    /\ nfree = 0

\* the caller: matrixMultiplyDivideConquer(A, B, C, n)
Call ==
    /\ pc = "machine" /\ fault = "none"
    /\ stack = <<>>
    /\ calls < MaxCalls
    /\ stack' = <<NewFrame(Locals(1, CallerNames)["A"],
                           Locals(1, CallerNames)["B"],
                           Locals(1, CallerNames)["C"], n)>>
    /\ calls' = calls + 1
    /\ UNCHANGED <<dataVars, numVars, pc, heap, brk, fault, nfree>>

\* if (n <= 2) { matrixMultiplyBruteForce(A, B, C, n); return; }
DCBaseCase ==
    /\ Running
    /\ Top.pc = "entry"
    /\ IsBaseCase(Top.n)
    /\ IF AllLive(heap, {Top.A, Top.B, Top.C})
       THEN /\ heap' = WriteMatrix(heap, Top.C,
                           matrixMultiplyBruteForce(ReadMatrix(heap, Top.A),
                                                    ReadMatrix(heap, Top.B),
                                                    ReadMatrix(heap, Top.C),
                                                    Top.n))
            /\ stack' = Pop
            /\ UNCHANGED <<dataVars, numVars, pc, brk, fault, calls, nfree>>
       ELSE UseAfterFree

\* int half = n / 2; the eight quadrants are allocated
DCAllocateQuadrants ==
    /\ Running
    /\ Top.pc = "entry"
    /\ ~IsBaseCase(Top.n)
    /\ LET half == Top.n \div 2 IN
       /\ heap' = AllocMatrices(heap, brk, Len(QuadNames), half, Depth)
       /\ brk' = brk + Len(QuadNames) * (1 + half)
       /\ stack' = SetTop([Top EXCEPT !.half = half, !.pc = "split",
                                      !.loc = Locals(brk, QuadNames)])
    /\ UNCHANGED <<dataVars, numVars, pc, fault, calls, nfree>>

\* the split loop
DCSplit ==
    /\ Running
    /\ Top.pc = "split"
    /\ IF AllLive(heap, {Top.A, Top.B} \cup {Top.loc[x] : x \in DOMAIN Top.loc})
       THEN LET f == Top
                a == ReadMatrix(heap, f.A)
                b == ReadMatrix(heap, f.B)
                q == f.loc["A11"] :> Quadrant(a, 0, 0, f.half)
                     @@ f.loc["A12"] :> Quadrant(a, 0, f.half, f.half)
                     @@ f.loc["A21"] :> Quadrant(a, f.half, 0, f.half)
                     @@ f.loc["A22"] :> Quadrant(a, f.half, f.half, f.half)
                     @@ f.loc["B11"] :> Quadrant(b, 0, 0, f.half)
                     @@ f.loc["B12"] :> Quadrant(b, 0, f.half, f.half)
                     @@ f.loc["B21"] :> Quadrant(b, f.half, 0, f.half)
                     @@ f.loc["B22"] :> Quadrant(b, f.half, f.half, f.half)
            IN  /\ heap' = WriteMatrices(heap, q)
                /\ stack' = SetTop([f EXCEPT !.pc = "temps"])
                /\ UNCHANGED <<dataVars, numVars, pc, brk, fault, calls, nfree>>
       ELSE UseAfterFree

\* temp1, temp2 and P1 .. P7 are allocated
DCAllocateTemps ==
    /\ Running
    /\ Top.pc = "temps"
    /\ heap' = AllocMatrices(heap, brk, Len(TempNames), Top.half, Depth)
    /\ brk' = brk + Len(TempNames) * (1 + Top.half)
    /\ stack' = SetTop([Top EXCEPT !.pc = "product",
                                   !.loc = Top.loc @@ Locals(brk, TempNames)])
    /\ UNCHANGED <<dataVars, numVars, pc, fault, calls, nfree>>

\* product k: the helpers fill temp1 / temp2 and the engine calls itself
DCProduct ==
    /\ Running
    /\ Top.pc = "product"
    /\ Top.made < Len(Products)
    /\ IF AllLive(heap, {Top.loc[x] : x \in DOMAIN Top.loc})
       THEN LET f == Top
                step == Products[f.made + 1]
            IN  /\ heap' = RunHelpers(heap, f, step.pre)
                /\ stack' = Append(
                       SetTop([f EXCEPT !.made = f.made + 1,
                                        !.pc = IF f.made + 1 = Len(Products)
                                               THEN "combine" ELSE "product"]),
                       NewFrame(f.loc[step.call[1]], f.loc[step.call[2]],
                                f.loc[step.call[3]], f.half))
                /\ UNCHANGED <<dataVars, numVars, pc, brk, fault, calls, nfree>>
       ELSE UseAfterFree

\* the combine loop
DCCombine ==
    /\ Running
    /\ Top.pc = "combine"
    /\ IF AllLive(heap, {Top.C} \cup {Top.loc[x] : x \in DOMAIN Top.loc})
       THEN LET f == Top
                P(x) == ReadMatrix(heap, f.loc[x])
            IN  /\ heap' = WriteMatrix(heap, f.C,
                               Combine(ReadMatrix(heap, f.C), P("P1"), P("P2"),
                                       P("P3"), P("P4"), P("P5"), P("P6"),
                                       P("P7"), f.half))
                /\ stack' = SetTop([f EXCEPT !.pc = "cleanup"])
                /\ UNCHANGED <<dataVars, numVars, pc, brk, fault, calls, nfree>>
       ELSE UseAfterFree

\* the clean-up loops, and the return
DCCleanup ==
    /\ Running
    /\ Top.pc = "cleanup"
    /\ IF \A x \in DOMAIN Top.loc : Top.loc[x] \in DOMAIN heap
       THEN LET frees == CleanupFrees(heap, Top)
                res == FreeAll(heap, frees, FALSE)
            IN  /\ heap' = res.heap
                /\ nfree' = nfree + Len(frees)
                /\ fault' = IF res.bad THEN "double free" ELSE "none"
                /\ stack' = Pop
                /\ UNCHANGED <<dataVars, numVars, pc, brk, calls>>
       ELSE UseAfterFree

NextMachine ==
    \/ Call
    \/ DCBaseCase
    \/ DCAllocateQuadrants
    \/ DCSplit
    \/ DCAllocateTemps
    \/ DCProduct
    \/ DCCombine
    \/ DCCleanup

SpecMachine == InitMachine /\ [][NextMachine]_vars

\* one input pair per size: the control flow of the engine does not depend
\* on the numbers in the matrices
InitTermination ==
    /\ InitMachine
    /\ A = Ramp(Dim(n), 0)
    /\ \A g \in JunkVals : junk <= g

\* the program is sequential: a call that can take a step takes it
SpecMachineFair ==
    InitTermination /\ [][NextMachine]_vars /\ WF_vars(NextMachine)

----------------------------------------------------------------------------
(* Reference notions used by the properties *)

\* the unconditional sum over k of a[i][k] * b[k][j], k = from .. sz-1
RECURSIVE SumTerms(_, _, _, _, _, _)
SumTerms(a, b, i, j, from, sz) ==
    IF from >= sz THEN 0
    ELSE a[i][from] * b[from][j] + SumTerms(a, b, i, j, from + 1, sz)

Product(a, b, sz) ==
    [i \in Idx(sz) |-> [j \in Idx(sz) |-> SumTerms(a, b, i, j, 0, sz)]]

RECURSIVE IsPowerOfTwo(_)
IsPowerOfTwo(k) ==
    \/ k = 1
    \/ k > 1 /\ k % 2 = 0 /\ IsPowerOfTwo(k \div 2)

\* some call of the brute-force loop / the divide & conquer loop has returned
BruteForceReturned == (pc = "bf" /\ iter > 0) \/ pc \in {"dc", "verify", "done"}
DivideConquerReturned == (pc = "dc" /\ iter > 0) \/ pc \in {"verify", "done"}

----------------------------------------------------------------------------
(* C1 *)

\* C1: for n a power of two, once matrixMultiplyDivideConquer(A, B, C2, n)
\* has returned C2 equals the C1 that matrixMultiplyBruteForce(A, B, C1, n)
\* left, element for element, and verifyMatrices(C1, C2, n) returns true.
C1_Equivalence ==
    IsPowerOfTwo(n) =>
        /\ DivideConquerReturned => C2 = C1
        /\ pc = "done" => resultsMatch = TRUE

\* two levels of recursion on dense inputs with a non-zero result
C1_Witness ==
    /\ pc = "done"
    /\ n = 8
    /\ A = Pattern(8, 1)
    /\ B = Ramp(8, 64)
    /\ resultsMatch = TRUE
    /\ C2 = Product(A, B, 8)
    /\ \E i \in Idx(8), j \in Idx(8) : C2[i][j] # 0

----------------------------------------------------------------------------
(* C2 *)

\* C2: after matrixMultiplyBruteForce(A, B, C1, n), every C1[i][j] is the
\* unconditional sum over k of A[i][k] * B[k][j]: the zero-skip leaves the
\* result of the plain triple loop, and nothing of C1's prior contents.
C2_BruteForceIsProduct ==
    BruteForceReturned => C1 = Product(A, B, n)

\* a first call over junk, with terms skipped and a non-zero result
C2_Witness ==
    /\ pc = "bf"
    /\ iter = 1
    /\ n = 3
    /\ junk # 0
    /\ \E i \in Idx(3), k \in Idx(3) : A[i][k] = 0
    /\ \E k \in Idx(3), j \in Idx(3) : B[k][j] = 0
    /\ \E i \in Idx(3), j \in Idx(3) : C1[i][j] < 0
    /\ C1 = Product(A, B, 3)

----------------------------------------------------------------------------
(* C4 *)

\* C4: with I the n x n identity, matrixMultiplyBruteForce leaves C1 = A for
\* A x I and C1 = B for I x B at every size, and matrixMultiplyDivideConquer
\* leaves C2 = A, respectively C2 = B, at every size that is a power of two.
C4_Identity ==
    /\ (BruteForceReturned /\ B = Ident(n)) => C1 = A
    /\ (BruteForceReturned /\ A = Ident(n)) => C1 = B
    /\ (DivideConquerReturned /\ IsPowerOfTwo(n) /\ B = Ident(n)) => C2 = A
    /\ (DivideConquerReturned /\ IsPowerOfTwo(n) /\ A = Ident(n)) => C2 = B

\* A x I through one level of quadrants, A = 1..16 row-major
C4_Witness ==
    /\ pc = "done"
    /\ n = 4
    /\ A = Ramp(4, 0)
    /\ B = Ident(4)
    /\ C1 = A
    /\ C2 = A

----------------------------------------------------------------------------
(* C5 *)

\* C5: when A or B is the all-zero matrix, matrixMultiplyBruteForce leaves
\* C1 all zero at every size and matrixMultiplyDivideConquer leaves C2 all
\* zero at every power-of-two size, whatever the buffers held before.
C5_Zero ==
    (A = Zero(n) \/ B = Zero(n)) =>
        /\ BruteForceReturned => C1 = Zero(n)
        /\ (DivideConquerReturned /\ IsPowerOfTwo(n)) => C2 = Zero(n)

\* a non-zero A times Z into buffers that held non-zero junk
C5_Witness ==
    /\ pc = "done"
    /\ n = 4
    /\ junk # 0
    /\ A = Ramp(4, 0)
    /\ B = Zero(4)
    /\ C1 = Zero(4)
    /\ C2 = Zero(4)

----------------------------------------------------------------------------
(* C6 *)

\* C6: after addMatrix(A, B, T, n) every T[i][j] is A[i][j] + B[i][j], and
\* after subtractMatrix(T, B, R, n) on that T, R equals A in every element.
C6_AddSubtractRoundTrip ==
    /\ pc \in {"added", "subtracted"} =>
           \A i \in Idx(n), j \in Idx(n) : T[i][j] = A[i][j] + B[i][j]
    /\ pc = "subtracted" => R = A

\* the round trip on a B that changes every cell
C6_Witness ==
    /\ pc = "subtracted"
    /\ n = 3
    /\ A = Pattern(3, 1)
    /\ B = Ramp(3, 9)
    /\ T # A
    /\ R = A

----------------------------------------------------------------------------
(* C7 *)

Agree(a, b, sz) == \A i \in Idx(sz), j \in Idx(sz) : a[i][j] = b[i][j]

\* row-major positions at which a and b differ
Mismatches(a, b, sz) ==
    {p \in 0 .. (sz * sz - 1) : a[p \div sz][p % sz] # b[p \div sz][p % sz]}

Least(S) == CHOOSE x \in S : \A y \in S : x <= y

VerifyContract(a, b, sz, ret, cnt) ==
    /\ ret = Agree(a, b, sz)
    /\ cnt = IF Agree(a, b, sz) THEN sz * sz
             ELSE Least(Mismatches(a, b, sz)) + 1

\* C7: verifyMatrices returns true exactly when the matrices agree in every
\* cell; on disagreement it has compared the cells up to and including the
\* first mismatch in row-major order and none after it.
C7_Verify ==
    /\ pc = "compared" => VerifyContract(A, B, n, resultsMatch, examined)
    /\ pc = "done" => VerifyContract(C1, C2, n, resultsMatch, examined)

\* a mismatch in the middle of the scan, with a later mismatch left unread
C7_Witness ==
    /\ pc = "compared"
    /\ n = 4
    /\ resultsMatch = FALSE
    /\ examined = 6
    /\ Cardinality(Mismatches(A, B, 4)) = 2

----------------------------------------------------------------------------
(* C8 *)

\* C8: once a multiply routine has returned, its output buffer holds what
\* the routine leaves for A, B, n from any other previous contents of the
\* buffer, and what one more call leaves.
C8_Determinism ==
    /\ BruteForceReturned =>
        /\ \A g \in JunkVals : C1 = matrixMultiplyBruteForce(A, B, Fill(n, g), n)
        /\ C1 = matrixMultiplyBruteForce(A, B, C1, n)
    /\ DivideConquerReturned =>
        /\ \A g \in JunkVals :
               C2 = matrixMultiplyDivideConquer(A, B, Fill(n, g), n)
        /\ C2 = matrixMultiplyDivideConquer(A, B, C2, n)

----------------------------------------------------------------------------
(* C9 *)

\* m with every cell outside rows and columns 0 .. lim-1 overwritten
Mask(m, lim) ==
    [i \in DOMAIN m |-> [j \in DOMAIN m[i] |->
        IF i < lim /\ j < lim THEN m[i][j] ELSE 99]]

\* C9: for odd n > 2, with half = n \div 2, a returned
\* matrixMultiplyDivideConquer(A, B, C2, n) has left every cell of row n-1
\* and column n-1 of C2 as it was before the call, and C2 is what the call
\* leaves when row n-1 and column n-1 of A and B hold other values.
C9_OddTruncation ==
    (DivideConquerReturned /\ n > 2 /\ n % 2 = 1) =>
        LET half == n \div 2 IN
        /\ \A i \in Idx(n), j \in Idx(n) :
               (i >= 2 * half \/ j >= 2 * half) => C2[i][j] = junk
        /\ C2 = matrixMultiplyDivideConquer(
                    Mask(A, 2 * half), Mask(B, 2 * half), Fill(n, junk), n)

\* n = 5: the last row and column are junk and the 4 x 4 block is not the
\* block of the brute-force product
C9_Witness ==
    /\ pc = "done"
    /\ n = 5
    /\ resultsMatch = FALSE
    /\ C2[4][4] = junk
    /\ C2[4][0] = junk
    /\ \E i \in Idx(4), j \in Idx(4) : C2[i][j] # C1[i][j]

----------------------------------------------------------------------------
(* The machine computes what the function computes *)

\* the caller's output matrix, and the address operator new reached before
\* the first call
OutC == ReadMatrix(heap, Locals(1, CallerNames)["C"])
CallerBrk == 1 + Len(CallerNames) * (1 + Dim(n))
Returned == pc = "machine" /\ stack = <<>> /\ calls > 0

\* after every top-level return the output buffer holds the value of
\* matrixMultiplyDivideConquer as a function
MachineAgreesWithFunction ==
    Returned =>
        /\ fault = "none"
        /\ OutC = matrixMultiplyDivideConquer(A, B, Fill(Dim(n), junk), n)

----------------------------------------------------------------------------
(* C3 *)

\* [[19, 22], [43, 50]]
Example2x2 == (0 :> (0 :> 19 @@ 1 :> 22)) @@ (1 :> (0 :> 43 @@ 1 :> 50))

\* C3: for n <= 2 a call of matrixMultiplyDivideConquer never has a second
\* frame, never allocates and never frees, and on return C holds the direct
\* dot products: A[0][0] * B[0][0] for n = 1, and [[19,22],[43,50]] for
\* [[1,2],[3,4]] x [[5,6],[7,8]].
C3_BaseCase ==
    (pc = "machine" /\ n <= 2) =>
        /\ Len(stack) <= 1
        /\ brk = CallerBrk
        /\ nfree = 0
        /\ \A k \in 1 .. Len(stack) : stack[k].pc = "entry"
        /\ Returned =>
            /\ OutC = Product(A, B, n)
            /\ n = 1 => OutC[0][0] = A[0][0] * B[0][0]
            /\ (n = 2 /\ A = Ramp(2, 0) /\ B = Ramp(2, 4)) => OutC = Example2x2

\* the 2 x 2 scenario has returned with nothing allocated
C3_Witness ==
    /\ Returned
    /\ n = 2
    /\ A = Ramp(2, 0)
    /\ B = Ramp(2, 4)
    /\ OutC = Example2x2
    /\ DOMAIN heap = 1 .. 9

----------------------------------------------------------------------------
(* C10 *)

\* live objects allocated by the frame at depth k
OwnedBy(k) == {a \in DOMAIN heap : heap[a].owner = k}

\* objects a frame holds at its position: a matrix is 1 + half arrays
FrameHolds(f) ==
    IF f.pc = "entry" THEN 0
    ELSE IF f.pc \in {"split", "temps"} THEN Len(QuadNames) * (1 + f.half)
    ELSE 17 * (1 + f.half)

\* C10: no delete[] hits a dead address and no dead buffer is used; every
\* active frame with n > 2 holds exactly its own 8, then 17, matrices and a
\* frame with n <= 2 holds none; a frame that has returned has left nothing
\* behind and every address handed out is live or was deleted once; after
\* the top-level return no engine-allocated buffer is live.
C10_ReleasesWhatItAllocates ==
    pc = "machine" =>
        /\ fault = "none"
        /\ \A k \in 1 .. Len(stack) :
            /\ Cardinality(OwnedBy(k)) = FrameHolds(stack[k])
            /\ IsBaseCase(stack[k].n) => stack[k].pc = "entry"
        /\ \A a \in DOMAIN heap : heap[a].owner <= Len(stack)
        /\ nfree + Cardinality({a \in DOMAIN heap : heap[a].owner > 0})
               = brk - CallerBrk
        /\ stack = <<>> => DOMAIN heap = 1 .. (CallerBrk - 1)

\* two calls at n = 8: 2 * (17 * 5 + 7 * 17 * 3) arrays allocated and deleted
C10_Witness ==
    /\ Returned
    /\ n = 8
    /\ calls = 2
    /\ nfree = 884
    /\ brk - CallerBrk = 884
    /\ Cardinality(DOMAIN heap) = 27

----------------------------------------------------------------------------
(* C11 *)

\* the frame's next step is its return
AboutToReturn(f) == f.pc = "cleanup" \/ (f.pc = "entry" /\ IsBaseCase(f.n))

RECURSIVE PowerOfTwo(_)
PowerOfTwo(e) == IF e <= 0 THEN 1 ELSE 2 * PowerOfTwo(e - 1)

\* every frame but the first was called by a frame with n > 2, with that
\* frame's n \div 2, which is smaller
ArgumentsShrink ==
    \A k \in 2 .. Len(stack) :
        /\ stack[k - 1].n > 2
        /\ stack[k].n = stack[k - 1].n \div 2
        /\ stack[k].n < stack[k - 1].n

\* the frames nested below the top-level call number at most log2(n); for
\* n <= 0 there is none
DepthWithinLog ==
    IF n >= 1 THEN PowerOfTwo(Len(stack) - 1) <= n ELSE Len(stack) <= 1

\* every call that has been made returns
EveryCallReturns == (stack # <<>>) ~> (stack = <<>>)

\* C11 as stated: arguments shrink, the nesting stays within log2(n), and
\* every frame, when it returns, has made exactly seven recursive calls.
C11_SevenCallsInEveryFrame ==
    pc = "machine" =>
        /\ ArgumentsShrink
        /\ DepthWithinLog
        /\ \A k \in 1 .. Len(stack) :
               AboutToReturn(stack[k]) => stack[k].made = 7

\* C11 amended: every call returns, for every n drawn including n <= 0 and
\* odd n; each recursive call gets n \div 2 < n from a frame with n > 2; a
\* frame with n > 2 has made exactly seven recursive calls when it returns
\* and a frame with n <= 2 none; the frames nested below the top-level call
\* never number more than log2(n).
C11_Termination ==
    /\ [](pc = "machine" =>
            /\ ArgumentsShrink
            /\ DepthWithinLog
            /\ \A k \in 1 .. Len(stack) :
                   /\ stack[k].made <= 7
                   /\ AboutToReturn(stack[k]) =>
                          stack[k].made = IF stack[k].n > 2 THEN 7 ELSE 0)
    /\ EveryCallReturns

\* n = 8 at its deepest: both splitting frames are in their seventh call,
\* whose frame is a base case
C11_Witness ==
    /\ pc = "machine"
    /\ n = 8
    /\ Len(stack) = 3
    /\ stack[1].made = 7
    /\ stack[2].made = 7
    /\ stack[2].n = 4
    /\ stack[3].n = 2
    /\ AboutToReturn(stack[3])

----------------------------------------------------------------------------
(* factorial.cpp                                                           *)
(*                                                                         *)
(* An unsigned long long is a sequence of four 16-bit limbs, least         *)
(* significant first.  A product of a limb and an int below 2^15 stays     *)
(* inside the integers of the model checker, and dropping the carry out of *)
(* the last limb is the reduction modulo 2^64 the machine performs.        *)
(* Both routines run one step at a time: an iteration of the loop of       *)
(* factorialBruteForce, a call or a return of factorialDivideConquer.      *)

\* one limb holds 16 bits
LimbBase == 65536

\* static unsigned long long memo[100]
MEMO_SIZE == 100

\* test cases run one after the other on the same cache
MaxFactCalls == 3

\* conversion of a non-negative int to unsigned long long
U64(v) == <<v % LimbBase, (v \div LimbBase) % LimbBase, 0, 0>>

RECURSIVE MulLimbs(_, _, _, _)
MulLimbs(x, m, i, carry) ==
    IF i > Len(x) THEN <<>>
    ELSE LET t == x[i] * m + carry
         IN  <<t % LimbBase>> \o MulLimbs(x, m, i + 1, t \div LimbBase)

\* x * m in unsigned long long, m an int in 0 .. 2^15 - 1
Mul64(x, m) == MulLimbs(x, m, 1, 0)

\* arguments drawn: main's test cases, the neighbourhood of the first
\* factorial that leaves 64 bits (21!), of the first that is 0 modulo 2^64
\* (66!), and both ends of the cache
FactArgs ==
    {0, 1, 2, 3, 5, 10, 12, 15, 20, 21, 22, 25, 33, 64, 65, 66, 67,
     MEMO_SIZE - 1}

MatrixIdle ==
    /\ n = 0
    /\ A = <<>> /\ B = <<>> /\ C1 = <<>> /\ C2 = <<>> /\ T = <<>> /\ R = <<>>
    /\ junk = 0
    /\ iter = 0
    /\ resultsMatch = FALSE
    /\ examined = 0
    /\ heap = <<>>
    /\ brk = 1
    /\ stack = <<>>
    /\ fault = "none"
    /\ calls = 0
    /\ nfree = 0

\* static storage is zero-initialised: memo[100] = {0}
InitFactorial ==
    /\ MatrixIdle
    /\ PrimesIdle
    /\ pc = "factorial"
    /\ memo = [i \in 0 .. MEMO_SIZE - 1 |-> U64(0)]
    /\ factN = 0
    /\ resultBF = U64(0)
    /\ resultDC = U64(0)
    /\ fcalls = 0
    /\ loopI = 0
    /\ result = U64(0)
    /\ fstack = <<>>
    /\ fret = U64(0)

\* main: resultBF = factorialBruteForce(n), up to the loop
\* if (n <= 1) return 1; unsigned long long result = 1; int i = 2
BruteForceCall(m) ==
    /\ pc = "factorial"
    /\ fcalls < MaxFactCalls
    /\ factN' = m
    /\ IF m <= 1
       THEN /\ resultBF' = U64(1)
            /\ pc' = "bf_returned"
            /\ UNCHANGED <<result, loopI>>
       ELSE /\ result' = U64(1)
            /\ loopI' = 2
            /\ pc' = "bf_loop"
            /\ UNCHANGED resultBF
    /\ UNCHANGED <<memo, resultDC, fcalls, fstack, fret>>
    /\ UNCHANGED <<dataVars, heapVars, primeVars>>

\* for (int i = 2; i <= n; i++) result *= i;  return result;
BruteForceStep ==
    /\ pc = "bf_loop"
    /\ IF loopI <= factN
       THEN /\ result' = Mul64(result, loopI)
            /\ loopI' = loopI + 1
            /\ UNCHANGED <<resultBF, pc>>
       ELSE /\ resultBF' = result
            /\ pc' = "bf_returned"
            /\ UNCHANGED <<result, loopI>>
    /\ UNCHANGED <<memo, factN, resultDC, fcalls, fstack, fret>>
    /\ UNCHANGED <<dataVars, heapVars, primeVars>>

\* main: resultDC = factorialDivideConquer(n)
DivideConquerCall ==
    /\ pc = "bf_returned"
    /\ fstack' = <<factN>>
    /\ fcalls' = fcalls + 1
    /\ pc' = "dc_call"
    /\ UNCHANGED <<memo, factN, resultBF, resultDC, loopI, result, fret>>
    /\ UNCHANGED <<dataVars, heapVars, primeVars>>

\* a return of the innermost call with value v: to the caller waiting in
\* memo[n] = n * factorialDivideConquer(n - 1), or to main
FactReturn(v) ==
    /\ fret' = v
    /\ fstack' = SubSeq(fstack, 1, Len(fstack) - 1)
    /\ IF Len(fstack) = 1
       THEN /\ resultDC' = v
            /\ pc' = "factorial"
       ELSE /\ pc' = "dc_return"
            /\ UNCHANGED resultDC

\* return memo[n] with the neighbouring index
CachedValue_Neighbour(cache, m) == cache[m - 1]

\* if (memo[n] != 0) return memo[n];
CachedValue(cache, m) == cache[m]

IsCached(cache, m) == cache[m] # U64(0)

\* if (n <= 1) return 1;
FactBaseCase ==
    /\ pc = "dc_call"
    /\ fstack[Len(fstack)] <= 1
    /\ FactReturn(U64(1))
    /\ UNCHANGED <<memo, factN, resultBF, fcalls, loopI, result>>
    /\ UNCHANGED <<dataVars, heapVars, primeVars>>

\* if (memo[n] != 0) return memo[n];
FactCacheHit ==
    /\ pc = "dc_call"
    /\ fstack[Len(fstack)] > 1
    /\ IsCached(memo, fstack[Len(fstack)])
    /\ FactReturn(CachedValue(memo, fstack[Len(fstack)]))
    /\ UNCHANGED <<memo, factN, resultBF, fcalls, loopI, result>>
    /\ UNCHANGED <<dataVars, heapVars, primeVars>>

\* the call factorialDivideConquer(n - 1) of line 58
FactRecurse ==
    /\ pc = "dc_call"
    /\ fstack[Len(fstack)] > 1
    /\ ~IsCached(memo, fstack[Len(fstack)])
    /\ fstack' = Append(fstack, fstack[Len(fstack)] - 1)
    /\ UNCHANGED <<memo, factN, resultBF, resultDC, fcalls, loopI, result, fret>>
    /\ UNCHANGED <<dataVars, pc, heapVars, primeVars>>

\* memo[n] = n * (the value returned); return memo[n];
FactStore ==
    /\ pc = "dc_return"
    /\ LET m == fstack[Len(fstack)]
           v == Mul64(fret, m)
       IN  /\ memo' = [memo EXCEPT ![m] = v]
           /\ FactReturn(v)
    /\ UNCHANGED <<factN, resultBF, fcalls, loopI, result>>
    /\ UNCHANGED <<dataVars, heapVars, primeVars>>

NextFactorial ==
    \/ \E m \in FactArgs : BruteForceCall(m)
    \/ BruteForceStep
    \/ DivideConquerCall
    \/ FactBaseCase
    \/ FactCacheHit
    \/ FactRecurse
    \/ FactStore

SpecFactorial == InitFactorial /\ [][NextFactorial]_vars

\* the factorials that fit a signed 32-bit integer, computed in the
\* integers
RECURSIVE SmallFactorial(_)
SmallFactorial(m) == IF m <= 1 THEN 1 ELSE m * SmallFactorial(m - 1)

\* <<0!, 1!, ..., 99!>> modulo 2^64, each from the one before
RECURSIVE Factorials(_)
Factorials(known) ==
    IF Len(known) >= MEMO_SIZE THEN known
    ELSE Factorials(Append(known,
                           IF Len(known) = 0 THEN U64(1)
                           ELSE Mul64(known[Len(known)], Len(known))))

\* i! modulo 2^64 for every index of the cache
FactorialTable ==
    LET t == Factorials(<<>>) IN [i \in 0 .. MEMO_SIZE - 1 |-> t[i + 1]]

\* 20! = 2432902008176640000 = 0x21C3677C82B40000
Factorial20 == <<0, 33460, 26492, 8643>>

\* main has both results of a test case
FactorialReturned == pc = "factorial" /\ fcalls > 0

\* C12: after any sequence of calls of factorialDivideConquer with arguments
\* in 0..99, and at every point inside such a call, every entry memo[k] of
\* the cache is 0 or k! modulo 2^64; and the call just made returned what
\* factorialBruteForce returned for the same argument, which is n! modulo
\* 2^64: n! itself while it fits, the known value of 20!, and 0 from 66! on,
\* where the cache entry stays 0 and is never taken for a cached value.
C12_MemoisedFactorial ==
    /\ pc \in {"factorial", "bf_loop", "bf_returned", "dc_call", "dc_return"} =>
           \A i \in 0 .. MEMO_SIZE - 1 :
               memo[i] = U64(0) \/ memo[i] = FactorialTable[i]
    /\ FactorialReturned =>
           /\ resultDC = resultBF
           /\ resultDC = FactorialTable[factN]
           /\ factN <= 12 => resultDC = U64(SmallFactorial(factN))
           /\ factN = 20 => resultDC = Factorial20
           /\ factN >= 66 => resultDC = U64(0) /\ memo[factN] = U64(0)
           /\ factN \in 2 .. 65 => resultDC # U64(0) /\ memo[factN] = resultDC

\* a later call with an argument whose factorial is 0 modulo 2^64, made on
\* a cache already filled up to 65!
C12_Witness ==
    /\ FactorialReturned
    /\ fcalls >= 2
    /\ factN = 66
    /\ resultDC = U64(0)
    /\ memo[65] # U64(0)
    /\ memo[66] = U64(0)
    /\ memo[20] = Factorial20

----------------------------------------------------------------------------
(* The prime-number program: isPrimeBruteForce, isPrimeDivideConquer and   *)
(* the two counting loops.  A loop that returns false at the first index   *)
(* that divides n, and true after the last, is the statement that no index *)
(* of the loop divides n; the indices are those the loop header visits.    *)

\* largest argument drawn: the first of main's testRanges
MaxPrimeArg == 1000

\* for (int i = 5; i < n; i += 2)
BruteForceDivisors(v) == {i \in 5 .. v - 1 : (i - 5) % 2 = 0}

isPrimeBruteForce(v) ==
    IF v <= 1 THEN FALSE
    ELSE IF v <= 3 THEN TRUE
    ELSE IF v % 2 = 0 \/ v % 3 = 0 THEN FALSE
    ELSE \A i \in BruteForceDivisors(v) : v % i # 0

\* static_cast<int>(std::sqrt(n)) for n >= 0: the square root of an int is
\* computed in double without loss and truncated
ISqrt(v) == CHOOSE r \in 0 .. v : r * r <= v /\ (r + 1) * (r + 1) > v

\* the loop stopping short of the square root: i < sqrtN
DivideConquerDivisors_Strict(v) ==
    {i \in 5 .. ISqrt(v) - 1 : (i - 5) % 6 = 0}

\* for (int i = 5; i <= sqrtN; i += 6)
DivideConquerDivisors(v) == {i \in 5 .. ISqrt(v) : (i - 5) % 6 = 0}

isPrimeDivideConquer(v) ==
    IF v <= 1 THEN FALSE
    ELSE IF v <= 3 THEN TRUE
    ELSE IF v % 2 = 0 \/ v % 3 = 0 THEN FALSE
    ELSE \A i \in DivideConquerDivisors(v) : v % i # 0 /\ v % (i + 2) # 0

\* for (int i = 2; i <= n; i++) if (isPrimeBruteForce(i)) count++;
countPrimesBruteForce(m) ==
    Cardinality({i \in 2 .. m : isPrimeBruteForce(i)})

\* for (int i = 2; i <= n; i++) if (isPrimeDivideConquer(i)) count++;
countPrimesDivideConquer(m) ==
    Cardinality({i \in 2 .. m : isPrimeDivideConquer(i)})

\* negative, zero and positive arguments
PrimeArgs == (0 - 3) .. MaxPrimeArg

InitPrimes ==
    /\ MatrixIdle
    /\ FactorialIdle
    /\ pc = "primes"
    /\ cand \in PrimeArgs
    /\ range = cand
    /\ primeBF = FALSE
    /\ primeDC = FALSE
    /\ countBF = 0
    /\ countDC = 0

\* both primality tests on the same argument
CallIsPrime ==
    /\ pc = "primes"
    /\ primeBF' = isPrimeBruteForce(cand)
    /\ primeDC' = isPrimeDivideConquer(cand)
    /\ pc' = "tested"
    /\ UNCHANGED <<cand, range, countBF, countDC>>
    /\ UNCHANGED <<dataVars, heapVars, factVars>>

\* main: countBF = countPrimesBruteForce(range);
CountBruteForce ==
    /\ pc = "tested"
    /\ countBF' = countPrimesBruteForce(range)
    /\ pc' = "counted_bf"
    /\ UNCHANGED <<cand, range, primeBF, primeDC, countDC>>
    /\ UNCHANGED <<dataVars, heapVars, factVars>>

\* main: countDC = countPrimesDivideConquer(range);
CountDivideConquer ==
    /\ pc = "counted_bf"
    /\ countDC' = countPrimesDivideConquer(range)
    /\ pc' = "counted"
    /\ UNCHANGED <<cand, range, primeBF, primeDC, countBF>>
    /\ UNCHANGED <<dataVars, heapVars, factVars>>

NextPrimes == CallIsPrime \/ CountBruteForce \/ CountDivideConquer

SpecPrimes == InitPrimes /\ [][NextPrimes]_vars

\* v is a prime number: greater than 1 and divisible by nothing in between
IsPrime(v) == v > 1 /\ \A d \in 2 .. v - 1 : v % d # 0

\* C13: for every integer n, negative, zero or positive,
\* isPrimeDivideConquer(n) returns the boolean isPrimeBruteForce(n) returns,
\* which says whether n is prime: the 6k+-1 divisors up to the square root
\* miss no composite the odd divisors below n catch; and the two counting
\* loops return the same count, the number of primes up to the range.
C13_PrimalityAgrees ==
    /\ pc \in {"tested", "counted_bf", "counted"} =>
           /\ primeDC = primeBF
           /\ primeBF = IsPrime(cand)
    /\ pc = "counted" =>
           /\ countDC = countBF
           /\ countBF = Cardinality({v \in 2 .. range : IsPrime(v)})

\* 169 = 13 * 13 is caught by the divisor i + 2 of the last index i = 11,
\* with 39 primes counted below it by both loops
C13_Witness ==
    /\ pc = "counted"
    /\ cand = 169
    /\ ~primeDC
    /\ ~primeBF
    /\ DivideConquerDivisors(cand) = {5, 11}
    /\ countDC = 39
    /\ countBF = 39

====
